---- MODULE Spec2Model ----
(***************************************************************************)
(* A model of daily.py (class GenrateDaily): configuration loading, image  *)
(* sequence discovery, colour / size setup and the per-sequence process()  *)
(* call with its ffmpeg command construction.                              *)
(*                                                                         *)
(* File names are tuples of their dot-separated components, so that        *)
(* "a.0001.exr" is <<"a", "0001", "exr">> and the hidden file ".exr" is     *)
(* <<"", "exr">>.  Directories are numbered: 0 is the directory named by    *)
(* input_path, d > 0 is a sub-directory whose parent is Parent(d).          *)
(***************************************************************************)
EXTENDS Integers, Sequences, FiniteSets, TLC

\* ----------------------------------------------------------------- bounds
\* Number of sub-directories below the input directory.
NumSubdirs == 2

\* ------------------------------------------------------- names and files
input_image_formats ==
  {"exr", "tif", "tiff", "png", "jpg", "jpeg", "iff", "tex", "tx", "jp2", "j2c"}

\* The frame-number components that occur in file names, and their values.
FrameNumber == ("0001" :> 1) @@ ("0002" :> 2) @@ ("0003" :> 3)

IsFrame(part) == part \in DOMAIN FrameNumber

\* The file names a directory may hold.
FileNames ==
  { <<"", "exr">>, <<"a", "0001", "exr">>, <<"a", "0002", "exr">>,
    <<"notes", "txt">> }

\* The names a sub-directory may have: a plain one, or one that ends like an
\* image file.
PlainDirName(d) == << <<"sub_a", "sub_b", "sub_c", "sub_d">>[d] >>
ImageLikeDirName == <<"v1", "exr">>

\* Python's ordering of the entry names (sorted() on the joined paths).
NameOrder ==
  << <<"", "exr">>, <<"a", "0001", "exr">>, <<"a", "0002", "exr">>,
     <<"a", "0003", "exr">>,
     <<"notes", "txt">>, <<"sub_a">>, <<"sub_b">>, <<"sub_c">>, <<"sub_d">>,
     <<"v1", "exr">> >>

Rank(name) == CHOOSE i \in 1..Len(NameOrder) : NameOrder[i] = name

RECURSIVE SortNames(_)
SortNames(S) ==
  IF S = {} THEN <<>>
  ELSE LET m == CHOOSE x \in S : \A y \in S : Rank(x) <= Rank(y)
       IN <<m>> \o SortNames(S \ {m})

\* os.path.splitext(f)[-1][1:] : the text after the last dot, unless every
\* character before that dot is itself a dot (a leading-dot name has none).
SplitextExt(name) ==
  IF Len(name) >= 2 /\ \E i \in 1..(Len(name) - 1) : name[i] # ""
  THEN name[Len(name)]
  ELSE ""

\* name.split(".")[-1] : the text after the last dot, or the whole name.
LastDotPart(name) == name[Len(name)]

\* ------------------------------------------------------ directory tree
Subdirs == 1..NumSubdirs
Dirs == 0..NumSubdirs
Parent(d) == d \div 2
Children(tree, d) == {c \in Subdirs : Parent(c) = d}

DirName(tree, d) ==
  IF d = NumSubdirs /\ tree.image_like_dir THEN ImageLikeDirName
  ELSE PlainDirName(d)

\* os.listdir(d): the files and the sub-directories directly inside d.
Listdir(tree, d) ==
  tree.files[d] \cup {DirName(tree, c) : c \in Children(tree, d)}

\* ----------------------------------------------------------------- pyseq
\* Two names belong to one sequence when they differ in a frame number only.
SeqKey(name) ==
  [i \in 1..Len(name) |-> IF IsFrame(name[i]) THEN "#" ELSE name[i]]

MkSequence(d, names) == [dirname |-> d, items |-> SortNames(names)]

\* pyseq.get_sequences over a set of entry names of directory d: every entry
\* lands in exactly one sequence, single entries included; the sequences come
\* in the order of their first entry.
RECURSIVE GroupSorted(_, _, _)
GroupSorted(d, names, sorted) ==
  IF sorted = <<>> THEN <<>>
  ELSE LET n == Head(sorted)
           grp == {m \in names : SeqKey(m) = SeqKey(n)}
           first == \A m \in grp : Rank(n) <= Rank(m)
       IN (IF first THEN <<MkSequence(d, grp)>> ELSE <<>>)
          \o GroupSorted(d, names, Tail(sorted))

get_sequences(d, names) == GroupSorted(d, names, SortNames(names))

\* Sequence.name, start() and end(): those of the first and last item.
SeqName(s) == s.items[1]
NameFrames(name) ==
  {FrameNumber[name[k]] : k \in {j \in 1..Len(name) : IsFrame(name[j])}}
FramesOf(s) == UNION {NameFrames(s.items[i]) : i \in 1..Len(s.items)}
Min(S) == CHOOSE x \in S : \A y \in S : x <= y
Max(S) == CHOOSE x \in S : \A y \in S : x >= y
SeqStart(s) == IF FramesOf(s) = {} THEN 0 ELSE Min(FramesOf(s))
SeqEnd(s) == IF FramesOf(s) = {} THEN 0 ELSE Max(FramesOf(s))

\* --------------------------------------------------------- Python values
\* A value that may be None, a path or a list keeps its kind in t.
NoneVal == [t |-> "None", v |-> <<>>]
PathVal(p) == [t |-> "path", v |-> <<p>>]
ListVal(l) == [t |-> "list", v |-> l]
RaiseVal(e) == [t |-> "raise", v |-> <<e>>]

\* ------------------------------------------------- get_image_sequences
SortedChildren(tree, d) ==
  LET kids == Children(tree, d)
      n == Cardinality(kids)
  IN [i \in 1..n |->
        CHOOSE c \in kids : Cardinality({k \in kids : k < c}) = i - 1]

\* os.walk(input_path): the directories in the order they are yielded
\* (top-down, each directory before its sub-directories).
RECURSIVE os_walk(_, _)
os_walk(tree, stack) ==
  IF stack = <<>> THEN <<>>
  ELSE <<Head(stack)>>
       \o os_walk(tree, SortedChildren(tree, Head(stack)) \o Tail(stack))

\* The image files directly inside the input directory (lines 403-407).
image_files(tree) ==
  {f \in tree.files[0] : SplitextExt(f) \in input_image_formats}

\* Lines 402-409: only the input directory itself is tested for more than
\* one image file before it is searched.
ScanRoot(tree, root) ==
  IF root = 0 /\ Cardinality(image_files(tree)) > 1
  THEN get_sequences(0, Listdir(tree, 0))
  ELSE <<>>

\* A variant of ScanDirectories that searches a sub-directory only when it
\* holds more than one image file, as ScanRoot does for the input directory.
ScanDirectoriesGuarded(tree, kids) ==
  LET RECURSIVE Go(_)
      Go(ks) ==
        IF ks = <<>> THEN <<>>
        ELSE (IF Cardinality({f \in tree.files[Head(ks)] :
                                SplitextExt(f) \in input_image_formats}) > 1
              THEN get_sequences(Head(ks), Listdir(tree, Head(ks)))
              ELSE <<>>) \o Go(Tail(ks))
  IN Go(kids)

\* Lines 410-413: every sub-directory of the directory being visited is
\* searched, whatever it holds.
ScanDirectories(tree, kids) ==
  LET RECURSIVE Go(_)
      Go(ks) ==
        IF ks = <<>> THEN <<>>
        ELSE get_sequences(Head(ks), Listdir(tree, Head(ks))) \o Go(Tail(ks))
  IN Go(kids)

\* Lines 399-413: the loop over os.walk.
RECURSIVE WalkLoop(_, _)
WalkLoop(tree, roots) ==
  IF roots = <<>> THEN <<>>
  ELSE ScanRoot(tree, Head(roots))
       \o ScanDirectories(tree, SortedChildren(tree, Head(roots)))
       \o WalkLoop(tree, Tail(roots))

\* Lines 439-449: keep the sequences whose name ends in an approved format.
RECURSIVE FilterExtensions(_)
FilterExtensions(seqs) ==
  IF seqs = <<>> THEN <<>>
  ELSE (IF LastDotPart(SeqName(Head(seqs))) \in input_image_formats
        THEN <<Head(seqs)>> ELSE <<>>)
       \o FilterExtensions(Tail(seqs))

\* Whether re.split(r"\d+", name) has at least two parts, so that parts[-2]
\* exists: the name holds a digit somewhere.
HasDigits(name) == \E i \in 1..Len(name) : IsFrame(name[i]) \/ name[i] = "v1"

\* glob("<dir>/*"): the entries that do not start with a dot.
GlobStar(tree, d) == {e \in Listdir(tree, d) : e[1] # ""}

\* input is [kind, name, parent_isdir]: the input directory itself, a file
\* directly inside it, or a path that does not exist (a %05d or #### pattern)
\* whose parent is the input directory when parent_isdir.
get_image_sequences(tree, input) ==
  LET found ==
        CASE input.kind = "dir" ->
               LET all == WalkLoop(tree, os_walk(tree, <<0>>))
               IN IF all = <<>> THEN NoneVal ELSE ListVal(all)
          [] input.kind = "file" ->
               \* image.parts[-2] needs a frame number in the name
               IF ~HasDigits(input.name) THEN RaiseVal("IndexError")
               ELSE ListVal(get_sequences(0, GlobStar(tree, 0)))
          [] OTHER ->
               IF input.parent_isdir
               THEN ListVal(get_sequences(0, Listdir(tree, 0)))
               ELSE NoneVal
  IN IF found.t = "raise" THEN found
     ELSE IF found.t = "list" /\ found.v # <<>>
          THEN ListVal(FilterExtensions(found.v))
          ELSE NoneVal

\* ------------------------------------------------------------ constants
DAILIES_CONFIG_DEFAULT == "<dir_path>/dailies-config.json"
DEFAULT_OCIO_FILE_PATH == "./config.ocio"
DEFAULT_OCIO_TRANSFORM == <<"linear", "sRGB">>

\* ---------------------------------------------------------------- state
VARIABLES
  env,               \* what the run is given: environment, argv, config file,
                     \* directory tree; never changes
  pc,                \* position in __init__ / process
  setup_success,     \* self.setup_success
  console,           \* what print() and the last-resort log handler wrote
  fs_log,            \* the file-system calls made, in order
  globals_config,    \* self.globals_config
  codec_config,      \* self.codec_config
  movie_location,    \* self.movie_location
  image_sequences,   \* self.image_sequences
  ocioconfig,        \* self.ocioconfig
  ociocolorconvert,  \* self.ociocolorconvert
  output_size,       \* <<self.output_width, self.output_height>>
  seq_index,         \* index in image_sequences of self.image_sequence
  movie_fullpath,    \* self.movie_fullpath
  log_level,         \* level of the module logger
  log_handlers,      \* handlers attached to the module logger, with the
                     \* lines each has written to its file
  ffmpeg_args,       \* the command setup_ffmpeg returned
  static_text_buf,   \* self.static_text_buf: for which sequence it was made
  overlay_allocs,    \* how many times static_text_buf was allocated
  outcome,           \* how process() ended for each sequence it was called
                     \* for: "started" until it returns
  encoder_input      \* per sequence, the frames written to an encoder

vars ==
  <<env, pc, setup_success, console, fs_log, globals_config, codec_config,
    movie_location, image_sequences, ocioconfig, ociocolorconvert,
    output_size, seq_index, movie_fullpath, log_level, log_handlers,
    ffmpeg_args, static_text_buf, overlay_allocs, outcome, encoder_input>>

\* ------------------------------------------------------------- helpers
Say(msg, arg) == [msg |-> msg, arg |-> arg]

NoLocation == [prefix |-> "None", parts |-> <<>>]
NoPath == [base |-> -1, loc |-> NoLocation, basename |-> <<>>,
           codec |-> "", ext |-> ""]

LevelNo(l) ==
  CASE l = "DEBUG" -> 10 [] l = "INFO" -> 20 [] l = "WARNING" -> 30
    [] l = "ERROR" -> 40 [] OTHER -> 0

\* Logger.getEffectiveLevel: a logger whose level was never set takes the
\* root logger's, WARNING.
EffectiveLevel(l) == IF l = "NOTSET" THEN "WARNING" ELSE l

\* Logger.callHandlers: a record that passes the logger's level is written
\* by every handler attached to the logger.
Emit(handlers, level, lvl, msg, during) ==
  IF LevelNo(lvl) >= LevelNo(EffectiveLevel(level))
  THEN [i \in 1..Len(handlers) |->
          [handlers[i] EXCEPT
             !.lines = Append(@, [level |-> lvl, msg |-> msg,
                                  during |-> during])]]
  ELSE handlers

Unset == [t |-> "unset", v |-> <<>>]

\* ------------------------------------------------------------- __init__
\* Lines 43-45: the config path is $DAILIES_CONFIG, else the default.
DAILIES_CONFIG ==
  IF env.DAILIES_CONFIG = "" THEN DAILIES_CONFIG_DEFAULT
  ELSE env.DAILIES_CONFIG

\* A variant of ConfigIsFile that takes the config file for granted.
ConfigIsFileAssumed == TRUE

\* Line 48: os.path.isfile(DAILIES_CONFIG).
ConfigIsFile == DAILIES_CONFIG \in env.files

\* Lines 36-58: read the config file, or report it missing and return.
LoadConfig ==
  /\ pc = "start"
  /\ fs_log' = Append(fs_log, Say("isfile", DAILIES_CONFIG))
  /\ IF ConfigIsFile
     THEN /\ pc' = "parse_args"
          /\ UNCHANGED <<console, setup_success>>
     ELSE /\ console' = Append(console,
                Say("Error: Could not find config file", DAILIES_CONFIG))
          /\ setup_success' = FALSE
          /\ pc' = "returned"
  /\ UNCHANGED <<env, globals_config, codec_config, movie_location,
                 image_sequences, ocioconfig, ociocolorconvert, output_size,
                 seq_index, movie_fullpath, log_level, log_handlers,
                 ffmpeg_args, static_text_buf, overlay_allocs, outcome,
                 encoder_input>>

\* Lines 60-96: parse the command line; with no argument print the help and
\* return.  args.debug only sets a local name, DEBUG.
ParseArgs ==
  /\ pc = "parse_args"
  /\ IF ~env.argv.given
     THEN /\ console' = Append(console, Say("usage", ""))
          /\ pc' = "returned"
          /\ UNCHANGED <<globals_config, movie_location, codec_config>>
     ELSE /\ globals_config' = env.config.globals
          /\ movie_location' = env.argv.output
          /\ console' = IF env.argv.debug
                        THEN Append(console, Say("Setting DEBUG=True!", ""))
                        ELSE console
          /\ codec_config' = env.config.codec_config
          /\ pc' = "resolve"
  /\ UNCHANGED <<env, setup_success, fs_log, image_sequences, ocioconfig,
                 ociocolorconvert, output_size, seq_index, movie_fullpath,
                 log_level, log_handlers, ffmpeg_args, static_text_buf,
                 overlay_allocs, outcome, encoder_input>>

\* Lines 98-103: resolve the input path; no sequence ends the run.
GetImageSequences ==
  /\ pc = "resolve"
  /\ LET found == get_image_sequences(env.tree, env.input)
     IN /\ fs_log' = Append(fs_log, Say("scan", env.input.kind))
        /\ IF found.t = "raise"
           THEN /\ pc' = "crashed"
                /\ console' = Append(console, Say(found.v[1], ""))
                /\ UNCHANGED image_sequences
           ELSE /\ image_sequences' = found
                /\ IF found.t = "None" \/ found.v = <<>>
                   THEN /\ console' = Append(console,
                             Say("No image sequence found! Exiting...", ""))
                        /\ pc' = "returned"
                   ELSE /\ pc' = "ocio"
                        /\ UNCHANGED console
  /\ UNCHANGED <<env, setup_success, globals_config, codec_config,
                 movie_location, ocioconfig, ociocolorconvert, output_size,
                 seq_index, movie_fullpath, log_level, log_handlers,
                 ffmpeg_args, static_text_buf, overlay_allocs, outcome,
                 encoder_input>>

\* Lines 105-135: the colour configuration and the colour transform.
SetupOcio ==
  /\ pc = "ocio"
  /\ LET fromconfig == globals_config.ocioconfig
         path == IF fromconfig = "" THEN DEFAULT_OCIO_FILE_PATH
                 ELSE fromconfig
         exists == path \in env.files
         checked == IF exists THEN PathVal(path) ELSE NoneVal
         transform == IF globals_config.ocio_transform = <<>> THEN NoneVal
                      ELSE ListVal(globals_config.ocio_transform)
     IN /\ fs_log' = Append(fs_log, Say("exists", path))
        /\ IF checked.t = "None"
           THEN \* line 129: the transform default lands in ocioconfig
                /\ ocioconfig' = ListVal(DEFAULT_OCIO_TRANSFORM)
                /\ ociocolorconvert' = transform
                /\ console' = Append(console,
                     Say("OCIO Config does not exist", path))
           ELSE \* lines 131-135
                /\ ocioconfig' = checked
                /\ ociocolorconvert' = NoneVal
                /\ console' = Append(console,
                     Say("Warning: No default ocio transform specified", ""))
  /\ pc' = "size"
  /\ UNCHANGED <<env, setup_success, globals_config, codec_config,
                 movie_location, image_sequences, output_size, seq_index,
                 movie_fullpath, log_level, log_handlers, ffmpeg_args,
                 static_text_buf, overlay_allocs, outcome, encoder_input>>

\* Lines 137-152: the output size.  When the config leaves width or height
\* out, line 141 reads self.image_sequence, an attribute that is only bound
\* by the for statement of line 155: AttributeError.
SetupSize ==
  /\ pc = "size"
  /\ IF globals_config.width = 0 \/ globals_config.height = 0
     THEN /\ output_size' = <<globals_config.width, globals_config.height>>
          /\ console' = Append(console, Say("AttributeError", "image_sequence"))
          /\ pc' = "crashed"
          /\ UNCHANGED setup_success
     ELSE /\ output_size' = <<globals_config.width, globals_config.height>>
          /\ setup_success' = TRUE
          /\ pc' = "loop"
          /\ UNCHANGED console
  /\ UNCHANGED <<env, fs_log, globals_config, codec_config, movie_location,
                 image_sequences, ocioconfig, ociocolorconvert, seq_index,
                 movie_fullpath, log_level, log_handlers, ffmpeg_args,
                 static_text_buf, overlay_allocs, outcome, encoder_input>>

\* Lines 154-156: the for statement binds self.image_sequence to the next
\* sequence and calls process(); after the last one __init__ returns.
ForEachSequence ==
  /\ pc = "loop"
  /\ IF seq_index < Len(image_sequences.v)
     THEN /\ seq_index' = seq_index + 1
          /\ outcome' = outcome @@ ((seq_index + 1) :> "started")
          /\ pc' = "process"
     ELSE /\ pc' = "returned"
          /\ UNCHANGED <<seq_index, outcome>>
  /\ UNCHANGED <<env, setup_success, console, fs_log, globals_config,
                 codec_config, movie_location, image_sequences, ocioconfig,
                 ociocolorconvert, output_size, movie_fullpath, log_level,
                 log_handlers, ffmpeg_args, static_text_buf, overlay_allocs,
                 encoder_input>>

\* -------------------------------------------------------- setup_ffmpeg
Arg(opt, val) == [opt |-> opt, val |-> val]

\* The command-line option each setting is written with.
Option ==
  [codec |-> "-c:v", profile |-> "-profile:v", qscale |-> "-qscale:v",
   preset |-> "-preset", keyint |-> "-g", bframes |-> "-bf",
   tune |-> "-tune", crf |-> "-crf", pix_fmt |-> "-pix_fmt",
   framerate |-> "-r", vf |-> "-vf", vendor |-> "-vendor",
   metadata_s |-> "-metadata:s", bitrate |-> "-b:v"]

\* A variant of option_order with -crf next to -qscale:v.
option_order_crf_first ==
  <<"codec", "profile", "qscale", "crf", "preset", "keyint", "bframes",
    "tune", "pix_fmt", "framerate", "vf", "vendor", "metadata_s", "bitrate">>

\* Lines 324-364: the settings in the order their if statements come.
option_order ==
  <<"codec", "profile", "qscale", "preset", "keyint", "bframes", "tune",
    "crf", "pix_fmt", "framerate", "vf", "vendor", "metadata_s", "bitrate">>

\* Every key setup_ffmpeg subscripts, in the order it does.
subscripted_keys == <<"bitdepth", "name">> \o option_order

\* "framerate" is read from the globals, every other key from the codec.
HasKey(codec, key) == key = "framerate" \/ key \in DOMAIN codec
Setting(codec, globals, key) ==
  IF key = "framerate" THEN ToString(globals.framerate) ELSE codec[key]
Truthy(codec, globals, key) ==
  IF key = "framerate" THEN globals.framerate # 0 ELSE codec[key] # ""

RECURSIVE OptionArgs(_, _, _)
OptionArgs(codec, globals, keys) ==
  IF keys = <<>> THEN <<>>
  ELSE (IF Truthy(codec, globals, Head(keys))
        THEN <<Arg(Option[Head(keys)],
                   <<Setting(codec, globals, Head(keys))>>)>>
        ELSE <<>>)
       \o OptionArgs(codec, globals, Tail(keys))

\* Timecode(framerate, "00:00:00:00") + frames, as <<HH, MM, SS, FF>>.
TimecodeOf(fps, frames) ==
  << ToString((frames \div (fps * 3600))),
     ToString((frames \div (fps * 60)) % 60),
     ToString((frames \div fps) % 60),
     ToString(frames % fps) >>

\* Lines 290-369.  The command is a string of space-separated words; it is
\* kept here as the list of its options, each with its value.
setup_ffmpeg(codec, globals, start_tc, fullpath) ==
  LET missing == {i \in 1..Len(subscripted_keys) :
                    ~HasKey(codec, subscripted_keys[i])}
  IN IF missing # {}
     THEN [t |-> "raise", v |-> <<"KeyError", subscripted_keys[Min(missing)]>>]
     ELSE
       LET pixel_format == IF codec["bitdepth"] >= 10 THEN "rgb48le"
                           ELSE "rgb24"
           input ==
             IF codec["name"] = "mjpeg"
             THEN << Arg("ffmpeg", <<>>), Arg("-y", <<>>),
                     Arg("-framerate", <<ToString(globals.framerate)>>),
                     Arg("-i", <<"pipe:0">>) >>
             ELSE << Arg("ffmpeg", <<>>), Arg("-hide_banner", <<>>),
                     Arg("-loglevel", <<"info">>), Arg("-y", <<>>),
                     Arg("-f", <<"rawvideo">>),
                     Arg("-pixel_format", <<pixel_format>>),
                     Arg("-video_size", <<ToString(globals.width),
                                          ToString(globals.height)>>),
                     Arg("-framerate", <<ToString(globals.framerate)>>),
                     Arg("-i", <<"pipe:0">>) >>
       IN [t |-> "list",
           v |-> input
                 \o <<Arg("-timecode", start_tc)>>
                 \o OptionArgs(codec, globals, option_order)
                 \o <<[opt |-> "output", val |-> <<>>, path |-> fullpath]>>]

\* -------------------------------------------------------------- process
image_sequence == image_sequences.v[seq_index]

\* head() without its separating character: the name up to the frame number.
seq_basename(seq) ==
  LET name == SeqName(seq)
      frames == {i \in 1..Len(name) : IsFrame(name[i])}
  IN IF frames = {} THEN name ELSE SubSeq(name, 1, Min(frames) - 1)

\* os.path.expanduser of a location that starts with "~".
expanduser(loc) == [prefix |-> "/", parts |-> <<"home", "user">> \o loc.parts]

\* Lines 167-229: the movie's name and directory.  A directory that does not
\* exist and cannot be made ends process() for this sequence only.
ProcessPaths ==
  /\ pc = "process"
  /\ LET seq == image_sequence
         location == IF movie_location.prefix = "None"
                     THEN globals_config.movie_location
                     ELSE movie_location
         named == \/ ~globals_config.movie_append_codec
                  \/ /\ "name" \in DOMAIN codec_config
                     /\ codec_config["name"] # ""
         resolved == IF location.prefix = "~" THEN expanduser(location)
                     ELSE location
         fullpath ==
           [base |-> IF location.prefix = "." THEN seq.dirname ELSE -1,
            loc |-> resolved,
            basename |-> seq_basename(seq),
            codec |-> IF globals_config.movie_append_codec
                      THEN codec_config["name"] ELSE "",
            ext |-> globals_config.movie_ext]
     IN IF ~HasDigits(SeqName(seq))
        THEN \* line 172: parts[-2] of a name without a number
             /\ console' = Append(console, Say("IndexError", "parts[-2]"))
             /\ pc' = "crashed"
             /\ UNCHANGED <<movie_location, movie_fullpath, fs_log, outcome>>
        ELSE IF ~named
        THEN \* lines 181-184 leave movie_filename unbound
             /\ console' = console
                  \o << Say("No codec name! Please fix the config!", "") >>
                  \o (IF movie_location.prefix = "None"
                      THEN << Say("No output folder specified.", "") >>
                      ELSE <<>>)
                  \o << Say("UnboundLocalError", "movie_filename") >>
             /\ movie_location' = location
             /\ pc' = "crashed"
             /\ UNCHANGED <<movie_fullpath, fs_log, outcome>>
        ELSE /\ movie_location' = resolved
             /\ movie_fullpath' = fullpath
             /\ fs_log' = Append(fs_log, Say("exists", "movie directory"))
             /\ IF fullpath.base \in env.denied
                THEN /\ console' = console
                          \o (IF movie_location.prefix = "None"
                              THEN << Say("No output folder specified.", "") >>
                              ELSE <<>>)
                          \o << Say("Output directory does not exist", "") >>
                     /\ outcome' = [outcome EXCEPT ![seq_index] = "no_directory"]
                     /\ pc' = "loop"
                ELSE /\ console' = console
                          \o (IF movie_location.prefix = "None"
                              THEN << Say("No output folder specified.", "") >>
                              ELSE <<>>)
                     /\ pc' = "logger"
                     /\ UNCHANGED outcome
  /\ UNCHANGED <<env, setup_success, globals_config, codec_config,
                 image_sequences, ocioconfig, ociocolorconvert, output_size,
                 seq_index, log_level, log_handlers, ffmpeg_args,
                 static_text_buf, overlay_allocs, encoder_input>>

\* Lines 231-256: a new file handler for this movie's log is added to the
\* module logger; the level follows the config's debug key.
ProcessLogger ==
  /\ pc = "logger"
  /\ LET handler == [path |-> [movie_fullpath EXCEPT !.ext = "log"],
                     owner |-> seq_index, lines |-> <<>>]
         added == Append(log_handlers, handler)
         level == IF globals_config.debug THEN "DEBUG" ELSE "INFO"
     IN /\ log_level' = level
        /\ IF "name" \notin DOMAIN codec_config
           THEN \* line 248
                /\ log_handlers' = added
                /\ console' = Append(console, Say("KeyError", "name"))
                /\ pc' = "crashed"
           ELSE /\ log_handlers' =
                     Emit(Emit(added, level, "DEBUG", "Got config", seq_index),
                          level, "DEBUG", "Output width x height", seq_index)
                /\ pc' = "ffmpeg"
                /\ UNCHANGED console
  /\ UNCHANGED <<env, setup_success, fs_log, globals_config, codec_config,
                 movie_location, image_sequences, ocioconfig,
                 ociocolorconvert, output_size, seq_index, movie_fullpath,
                 ffmpeg_args, static_text_buf, overlay_allocs, outcome,
                 encoder_input>>

\* Lines 258-270: pixel type, start timecode and the ffmpeg command, which
\* is logged.
ProcessFfmpeg ==
  /\ pc = "ffmpeg"
  /\ LET start_tc == TimecodeOf(globals_config.framerate,
                                SeqStart(image_sequence))
         built == setup_ffmpeg(codec_config, globals_config, start_tc,
                               movie_fullpath)
     IN IF built.t = "raise"
        THEN /\ console' = Append(console, Say(built.v[1], built.v[2]))
             /\ pc' = "crashed"
             /\ UNCHANGED <<ffmpeg_args, log_handlers>>
        ELSE /\ ffmpeg_args' = built.v
             /\ log_handlers' = Emit(log_handlers, log_level, "INFO",
                                     "ffmpeg command", seq_index)
             /\ pc' = "overlay"
             /\ UNCHANGED console
  /\ UNCHANGED <<env, setup_success, fs_log, globals_config, codec_config,
                 movie_location, image_sequences, ocioconfig,
                 ociocolorconvert, output_size, seq_index, movie_fullpath,
                 log_level, static_text_buf, overlay_allocs, outcome,
                 encoder_input>>

\* A variant of AllocateOverlay that keeps the buffer of an earlier sequence.
AllocateOverlayOnce == overlay_allocs = 0

\* Line 273: process() makes a new static_text_buf each time it is called.
AllocateOverlay == TRUE

\* Lines 272-288: the static text buffer.  generate_text is not a method of
\* the class, so the first text element raises AttributeError.  process()
\* ends here: no encoder is started and no frame is read or written.
ProcessOverlay ==
  /\ pc = "overlay"
  /\ IF AllocateOverlay
     THEN /\ static_text_buf' = [made_for |-> seq_index]
          /\ overlay_allocs' = overlay_allocs + 1
     ELSE UNCHANGED <<static_text_buf, overlay_allocs>>
  /\ IF env.config.static_text_elements > 0
     THEN /\ log_handlers' = Emit(log_handlers, log_level, "INFO",
                                  "Generate Text", seq_index)
          /\ console' = Append(console, Say("AttributeError", "generate_text"))
          /\ pc' = "crashed"
          /\ UNCHANGED outcome
     ELSE /\ outcome' = [outcome EXCEPT ![seq_index] = "finished"]
          /\ pc' = "loop"
          /\ UNCHANGED <<log_handlers, console>>
  /\ UNCHANGED <<env, setup_success, fs_log, globals_config, codec_config,
                 movie_location, image_sequences, ocioconfig,
                 ociocolorconvert, output_size, seq_index, movie_fullpath,
                 log_level, ffmpeg_args, encoder_input>>

\* ------------------------------------------------------------- inputs
STUDIO_CONFIG == "/studio/dailies-config.json"
SHOW_OCIO == "/show/config.ocio"

optional_keys ==
  {"codec", "profile", "qscale", "preset", "keyint", "bframes", "tune",
   "crf", "pix_fmt", "vf", "vendor", "metadata_s", "bitrate"}
codec_keys == {"name", "bitdepth"} \cup optional_keys

Sample ==
  [codec |-> "libx265", profile |-> "main10", qscale |-> "5",
   preset |-> "slow", keyint |-> "12", bframes |-> "2", tune |-> "film",
   crf |-> "18", pix_fmt |-> "yuv420p10le", vf |-> "colormatrix=bt601:bt709",
   vendor |-> "ap10", metadata_s |-> "encoder=hevc", bitrate |-> "12M"]

\* A codec preset: the keys in absent are left out of the JSON object, those
\* in falsy are null.
Preset(name, bitdepth, falsy, absent) ==
  [k \in codec_keys \ absent |->
     IF k = "name" THEN name
     ELSE IF k = "bitdepth" THEN bitdepth
     ELSE IF k \in falsy THEN "" ELSE Sample[k]]

\* How many optional keys of a preset may be null or left out.
MaxUnset == 2

Presets ==
  UNION { { Preset(n, b, u \ a, a) : a \in SUBSET u }
          : n \in {"hevc", "mjpeg"}, b \in {8, 10},
            u \in {x \in SUBSET optional_keys : Cardinality(x) <= MaxUnset} }

MainPresets ==
  { Preset("hevc", 10, {}, {}),
    Preset("mjpeg", 8, optional_keys \ {"codec", "qscale"}, {}),
    Preset("hevc", 10, {"qscale"}, {"tune"}),
    Preset("", 8, {"crf"}, {}) }

Location(prefix, parts) == [prefix |-> prefix, parts |-> parts]

Globals(debug, ocio, transform, size, append) ==
  [debug |-> debug, ocioconfig |-> ocio, ocio_transform |-> transform,
   width |-> size[1], height |-> size[2], framerate |-> 24,
   movie_ext |-> "mov", movie_append_codec |-> append,
   movie_location |-> Location("~", <<"dailies">>)]

DefaultGlobals == Globals(FALSE, "", <<>>, <<4, 2>>, FALSE)

A1 == <<"a", "0001", "exr">>
A2 == <<"a", "0002", "exr">>

Tree(files, image_like_dir) ==
  [files |-> files, image_like_dir |-> image_like_dir]

AllTrees == [files : [Dirs -> SUBSET FileNames], image_like_dir : BOOLEAN]

DirInput == [kind |-> "dir", name |-> <<>>, parent_isdir |-> TRUE]

FileInput(name) == [kind |-> "file", name |-> name, parent_isdir |-> TRUE]
PatternInput(parent_isdir) ==
  [kind |-> "pattern", name |-> <<>>, parent_isdir |-> parent_isdir]

\* The directory trees of the full runs, each with the input paths given.
ThreeSequences == Tree([d \in Dirs |-> IF d <= 1 THEN {A1, A2} ELSE {A1}], FALSE)
OneSequence == Tree([d \in Dirs |-> IF d = 1 THEN {A1, A2} ELSE {}], FALSE)
NoSequence == Tree([d \in Dirs |-> {}], FALSE)
HiddenFile == Tree([d \in Dirs |-> IF d = 1 THEN {<<"", "exr">>} ELSE {}], FALSE)

MainSources ==
  { <<ThreeSequences, DirInput>>, <<OneSequence, DirInput>>,
    <<NoSequence, DirInput>>, <<HiddenFile, DirInput>>,
    <<ThreeSequences, FileInput(A1)>>,
    <<OneSequence, FileInput(<<"notes", "txt">>)>>,
    <<ThreeSequences, PatternInput(TRUE)>>,
    <<OneSequence, PatternInput(FALSE)>> }

Argv(given, debug, output) ==
  [given |-> given, debug |-> debug, output |-> output]

NoArgv == Argv(FALSE, FALSE, NoLocation)

GivenArgvs ==
  { Argv(TRUE, FALSE, NoLocation),
    Argv(TRUE, TRUE, Location("/", <<"out">>)),
    Argv(TRUE, FALSE, Location(".", <<"dailies">>)) }

Env(var, files, argv, globals, codec, texts, tree, input, denied) ==
  [DAILIES_CONFIG |-> var, files |-> files, argv |-> argv,
   config |-> [globals |-> globals, codec_config |-> codec,
               static_text_elements |-> texts],
   tree |-> tree, input |-> input, denied |-> denied,
   native |-> [width |-> 3, height |-> 2]]

\* The runs whose config file is missing, with every command line.
EnvsNoConfig ==
  { Env(c[1], c[2], a, DefaultGlobals, Preset("hevc", 10, {}, {}), 0,
        Tree([d \in Dirs |-> {A1, A2}], FALSE), DirInput, {})
    : c \in { <<"", {}>>, <<"", {STUDIO_CONFIG}>>,
              <<STUDIO_CONFIG, {DAILIES_CONFIG_DEFAULT}>> },
      a \in GivenArgvs \cup {NoArgv} }

\* The runs that print the help.
EnvsNoArgv ==
  { Env(c[1], c[2], NoArgv, DefaultGlobals, Preset("hevc", 10, {}, {}), 0,
        Tree([d \in Dirs |-> {A1, A2}], FALSE), DirInput, {})
    : c \in { <<"", {DAILIES_CONFIG_DEFAULT}>>,
              <<STUDIO_CONFIG, {STUDIO_CONFIG}>> } }

\* The runs that get to resolving their input path.
EnvsRun ==
  { Env("", {DAILIES_CONFIG_DEFAULT} \cup o[2], a,
        Globals(g[1], o[1], g[2], g[3], g[4]), c, t, src[1], src[2], dn)
    : a \in GivenArgvs,
      o \in { <<"", {}>>, <<"", {DEFAULT_OCIO_FILE_PATH}>>,
              <<SHOW_OCIO, {}>>, <<SHOW_OCIO, {SHOW_OCIO}>> },
      g \in BOOLEAN \X { <<>>, <<"ACEScg", "rec709">> }
              \X { <<4, 2>>, <<4, 0>>, <<0, 0>> } \X BOOLEAN,
      c \in MainPresets, t \in {0, 1}, src \in MainSources,
      dn \in { {}, {0}, {-1, 1} } }

InitState ==
  /\ pc = "start"
  /\ setup_success = FALSE
  /\ console = <<>>
  /\ fs_log = <<>>
  /\ globals_config = Unset
  /\ codec_config = Unset
  /\ movie_location = NoLocation
  /\ image_sequences = Unset
  /\ ocioconfig = Unset
  /\ ociocolorconvert = Unset
  /\ output_size = <<0, 0>>
  /\ seq_index = 0
  /\ movie_fullpath = NoPath
  /\ log_level = "NOTSET"
  /\ log_handlers = <<>>
  /\ ffmpeg_args = <<>>
  /\ static_text_buf = [made_for |-> 0]
  /\ overlay_allocs = 0
  /\ outcome = [k \in {} |-> ""]
  /\ encoder_input = [k \in {} |-> <<>>]

Init == env \in EnvsNoConfig \cup EnvsNoArgv \cup EnvsRun /\ InitState

Next ==
  \/ LoadConfig
  \/ ParseArgs
  \/ GetImageSequences
  \/ SetupOcio
  \/ SetupSize
  \/ ForEachSequence
  \/ ProcessPaths
  \/ ProcessLogger
  \/ ProcessFfmpeg
  \/ ProcessOverlay

Spec == Init /\ [][Next]_vars

\* ------------------------------------------- sequence discovery alone
\* Every directory tree over FileNames, given as a directory input.
EnvsResolve ==
  { Env("", {DAILIES_CONFIG_DEFAULT}, Argv(TRUE, FALSE, NoLocation),
        DefaultGlobals, Preset("hevc", 10, {}, {}), 0, tr, DirInput, {})
    : tr \in AllTrees }

InitResolve == env \in EnvsResolve /\ InitState

NextResolve ==
  \/ LoadConfig
  \/ ParseArgs
  \/ GetImageSequences

SpecResolve == InitResolve /\ [][NextResolve]_vars

\* ------------------------------------------------ command building alone
\* Every preset of Presets, on a run over one sequence.
EnvsFfmpeg ==
  { Env("", {DAILIES_CONFIG_DEFAULT}, Argv(TRUE, FALSE, NoLocation),
        DefaultGlobals, c, 0, OneSequence, DirInput, {})
    : c \in Presets }

InitFfmpeg == env \in EnvsFfmpeg /\ InitState

SpecFfmpeg == InitFfmpeg /\ [][Next]_vars

\* ---------------------------------------------------------------- C9
Resolved == pc \notin {"start", "parse_args", "resolve"}

\* Directory d contributes: some resolved sequence lies in it.
Contributes(d) ==
  /\ image_sequences.t = "list"
  /\ \E i \in 1..Len(image_sequences.v) : image_sequences.v[i].dirname = d

\* The files directly in d whose extension is an accepted image format.
ImageFilesIn(d) ==
  {f \in env.tree.files[d] : SplitextExt(f) \in input_image_formats}

\* C9 as claimed: for a directory input, every directory -- the input
\* directory and each sub-directory at any depth -- contributes sequences
\* exactly when it directly contains more than one image file.
C9_SameRuleEverywhere ==
  Resolved =>
    \A d \in Dirs : Contributes(d) <=> Cardinality(ImageFilesIn(d)) > 1

\* C9 as the code has it: the input directory contributes exactly when it
\* directly contains more than one image file; a sub-directory at any depth
\* is searched whatever it holds, and contributes exactly when one of its
\* entries (file or directory) has a name that ends in an accepted format.
C9_RootRuleOnly ==
  Resolved =>
    /\ Contributes(0) <=> Cardinality(ImageFilesIn(0)) > 1
    /\ \A d \in Subdirs :
         Contributes(d) <=>
           \E e \in Listdir(env.tree, d) :
              LastDotPart(e) \in input_image_formats

\* A deepest sub-directory with one image file contributes, below an input
\* directory and a parent that contribute nothing.
C9_Witness ==
  /\ Resolved
  /\ Cardinality(ImageFilesIn(NumSubdirs)) = 1
  /\ Contributes(NumSubdirs)
  /\ Cardinality(ImageFilesIn(0)) = 1
  /\ ~Contributes(0)
  /\ ~Contributes(Parent(NumSubdirs))

\* ---------------------------------------------------------------- C1
\* The frames start..end of a sequence, each once, in ascending order.
FrameRange(seq) ==
  [i \in 1..(SeqEnd(seq) - SeqStart(seq) + 1) |-> SeqStart(seq) + i - 1]

Streamed(k) == IF k \in DOMAIN encoder_input THEN encoder_input[k] ELSE <<>>

\* C1: when the run has returned, every sequence that process() handled to
\* its end has had its frames start_frame..end_frame streamed to the encoder,
\* each exactly once and in ascending order (end_frame - start_frame + 1
\* frames in all).
C1_FramesStreamedInOrder ==
  pc = "returned" =>
    \A k \in DOMAIN outcome :
       outcome[k] = "finished" =>
         Streamed(k) = FrameRange(image_sequences.v[k])

\* ---------------------------------------------------------------- C2
RunEnded == pc \in {"returned", "crashed"}

\* C2: a sequence whose output directory cannot be created (or whose encoder
\* fails) does not end the run: once the run has ended, every sequence queued
\* after such a sequence has been attempted.
C2_FailedSequenceDoesNotEndRun ==
  RunEnded =>
    \A a \in DOMAIN outcome :
       outcome[a] = "no_directory" =>
         \A b \in (a + 1)..Len(image_sequences.v) : b \in DOMAIN outcome

\* ---------------------------------------------------------------- C3
\* The path the run is configured with, as the claim words it.
ConfiguredPath ==
  IF env.DAILIES_CONFIG # "" THEN env.DAILIES_CONFIG
  ELSE DAILIES_CONFIG_DEFAULT

ConfigMissing == ConfiguredPath \notin env.files

\* C3: when the config file is missing, whatever the command line, the run
\* returns with setup unsuccessful straight after looking for the file: it
\* has reported the configured path and done nothing else -- no argument
\* parsing, no sequence resolution, no other file-system call, no sequence
\* processed.
C3_MissingConfigAborts ==
  (ConfigMissing /\ pc # "start") =>
    /\ pc = "returned"
    /\ ~setup_success
    /\ console = << Say("Error: Could not find config file", ConfiguredPath) >>
    /\ fs_log = << Say("isfile", ConfiguredPath) >>
    /\ image_sequences = Unset
    /\ DOMAIN outcome = {}
    /\ log_handlers = <<>>

\* A run with arguments and a debug flag, pointed by $DAILIES_CONFIG at a
\* file that is missing while the default file exists, has returned.
C3_Witness ==
  /\ ConfigMissing
  /\ pc = "returned"
  /\ env.DAILIES_CONFIG = STUDIO_CONFIG
  /\ DAILIES_CONFIG_DEFAULT \in env.files
  /\ env.argv.given /\ env.argv.debug
  /\ Len(console) = 1

\* ---------------------------------------------------------------- C4
\* round(a / b) for positive integers, halves to the even neighbour.
RoundDiv(a, b) ==
  LET q == a \div b
      r == a % b
  IN IF 2 * r < b THEN q
     ELSE IF 2 * r > b THEN q + 1
     ELSE IF q % 2 = 0 THEN q ELSE q + 1

SizeStepTaken == ocioconfig # Unset /\ pc # "size"

\* C4: when the config leaves width or height out, setup derives them from
\* the first frame (width = native width, height = round(width / (native
\* width / native height))), completes successfully, and every sequence of
\* the run uses that size.
C4_MissingSizeIsDerived ==
  LET cfg == env.config.globals
      width == IF cfg.width # 0 THEN cfg.width ELSE env.native.width
      height == IF cfg.height # 0 THEN cfg.height
                ELSE RoundDiv(width * env.native.height, env.native.width)
  IN (SizeStepTaken /\ (cfg.width = 0 \/ cfg.height = 0)) =>
       /\ setup_success
       /\ pc # "crashed"
       /\ output_size = <<width, height>>
       /\ globals_config.width = width /\ globals_config.height = height

\* ---------------------------------------------------------------- C5
OcioStepTaken == ocioconfig # Unset

\* C5: after setup a transform is selected exactly when a colour config file
\* that exists and a transform are both configured, and then ocioconfig
\* holds the file's path and ociocolorconvert the configured pair; when the
\* colour config path does not exist, ocioconfig is empty (it never holds a
\* list of transform names) and no transform is applied.
C5_TransformSelectedIffConfigured ==
  LET cfg == env.config.globals
      path == IF cfg.ocioconfig # "" THEN cfg.ocioconfig
              ELSE DEFAULT_OCIO_FILE_PATH
      exists == path \in env.files
      both == exists /\ cfg.ocio_transform # <<>>
  IN OcioStepTaken =>
       /\ both => /\ ocioconfig = PathVal(path)
                  /\ ociocolorconvert = ListVal(cfg.ocio_transform)
       /\ ~both => (ocioconfig.t # "path" \/ ociocolorconvert.t # "list")
       /\ ~exists => ocioconfig = NoneVal
       /\ ocioconfig.t # "list"

\* ---------------------------------------------------------------- C6
\* C6: with -d/--debug on the command line, DEBUG-level logging is in effect
\* while a sequence is processed, whatever the config's debug key holds.
C6_DebugFlagSetsDebugLevel ==
  (env.argv.debug /\ pc \in {"ffmpeg", "overlay"}) => log_level = "DEBUG"

\* ---------------------------------------------------------------- C7
\* C7: at most one per-movie log file is open at any time, and a log event
\* is only ever written to the log file of the sequence being processed.
C7_OneLogFileAtATime ==
  /\ Len(log_handlers) <= 1
  /\ \A h \in 1..Len(log_handlers) :
       \A i \in 1..Len(log_handlers[h].lines) :
          log_handlers[h].lines[i].during = log_handlers[h].owner

\* ---------------------------------------------------------------- C8
Finished == {k \in DOMAIN outcome : outcome[k] = "finished"}

FfmpegBuilt == pc \in {"overlay", "loop", "returned"} /\ ffmpeg_args # <<>>
FfmpegFailed == pc = "crashed" /\ console[Len(console)].msg = "KeyError"
FfmpegStepTaken == FfmpegBuilt \/ FfmpegFailed

\* The settings behind the optional flags, without the timecode, which the
\* run always has: in the order the spec lists them and in the order of the
\* if statements of setup_ffmpeg.
C10_SpecOrder ==
  <<"codec", "profile", "qscale", "crf", "preset", "keyint", "bframes",
    "tune", "pix_fmt", "framerate", "vf", "vendor", "metadata_s", "bitrate">>
C10_CodeOrder ==
  <<"codec", "profile", "qscale", "preset", "keyint", "bframes", "tune",
    "crf", "pix_fmt", "framerate", "vf", "vendor", "metadata_s", "bitrate">>

\* Where in the command the option of a setting stands.
PositionsOf(key) ==
  {i \in 1..Len(ffmpeg_args) : ffmpeg_args[i].opt = Option[key]}

\* The value a preset gives a setting is present and truthy.
IsSet(key) ==
  IF key = "framerate" THEN env.config.globals.framerate # 0
  ELSE key \in DOMAIN env.config.codec_config
       /\ env.config.codec_config[key] # ""

\* The command holds the option of exactly the settings that are set, once
\* each, after -timecode, in the given order, and ends with the movie path.
CommandFollows(order) ==
  /\ \A i \in 1..Len(order) :
       /\ IsSet(order[i]) => Cardinality(PositionsOf(order[i])) = 1
       /\ ~IsSet(order[i]) => PositionsOf(order[i]) = {}
  /\ \E t \in 1..Len(ffmpeg_args) :
       /\ ffmpeg_args[t].opt = "-timecode"
       /\ \A i \in 1..Len(order) : \A p \in PositionsOf(order[i]) : t < p
  /\ \A i, j \in 1..Len(order) :
       i < j => \A p \in PositionsOf(order[i]) :
                  \A q \in PositionsOf(order[j]) : p < q
  /\ ffmpeg_args[Len(ffmpeg_args)].opt = "output"
  /\ ffmpeg_args[Len(ffmpeg_args)].path = movie_fullpath

\* C10 as claimed: the build never fails over a setting that is absent or
\* falsy, and the command holds the flags of exactly the settings that are
\* set, in the order the spec lists them, the movie path last.
C10_FlagsInSpecOrder ==
  FfmpegStepTaken => (FfmpegBuilt /\ CommandFollows(C10_SpecOrder))

\* C10 as the code has it: a setting whose key the preset leaves out fails
\* the build (KeyError), a falsy one only omits its flag; a command that is
\* built holds the flags of exactly the settings that are truthy, in the
\* order of the code (-crf after -tune), the movie path last.
C10_FlagsInCodeOrder ==
  FfmpegStepTaken =>
    /\ FfmpegFailed <=> optional_keys \ DOMAIN env.config.codec_config # {}
    /\ FfmpegBuilt => CommandFollows(C10_CodeOrder)

\* A command was built from a preset with crf and tune set and a null
\* qscale: -crf stands in it, after -tune.
C10_Witness ==
  /\ FfmpegBuilt
  /\ IsSet("crf") /\ IsSet("tune") /\ ~IsSet("qscale")
  /\ "qscale" \in DOMAIN env.config.codec_config
  /\ \E p \in PositionsOf("tune") : \E q \in PositionsOf("crf") : p < q
====
